---- MODULE Spec2Model ----
(***************************************************************************)
(* SnowParkDataSet (kedro_datasets/snowflake/snowpark_dataset.py) as a     *)
(* state machine: the credentials mappings the caller owns (Python dicts,  *)
(* shared by reference), the adapter instances built so far, the Snowpark  *)
(* sessions the vendor SDK holds, and the tables of the warehouse.         *)
(* Dicts are functions from key strings to values; strings are strings.    *)
(***************************************************************************)
EXTENDS Integers, Sequences, FiniteSets, TLC

VARIABLES
    creds,              \* heap of caller-owned credentials dicts, by reference
    creds0,             \* history: the dicts as the caller first supplied them
    DEFAULT_LOAD_ARGS,  \* class attribute
    DEFAULT_SAVE_ARGS,  \* class attribute
    instances,          \* the SnowParkDataSet objects constructed so far
    built,              \* history: per instance, the constructor's arguments
    sessions,           \* the vendor SDK's sessions, all of them active
    tables,             \* warehouse: <<session, qualified name>> -> rows
    last                \* the last call made: arguments, vendor calls, outcome

vars == <<creds, creds0, DEFAULT_LOAD_ARGS, DEFAULT_SAVE_ARGS, instances,
          built, sessions, tables, last>>

-----------------------------------------------------------------------------
(* Bounds *)

MaxAdapters == 2    \* instances constructed in one run
MaxCount == 2       \* largest COUNT(*) the metadata query reports

-----------------------------------------------------------------------------
(* Python values *)

\* None, where a string is expected (schema: str = None)
None == "<None>"

\* `not v` is False for a string argument
Truthy(v) == v # None /\ v # ""

\* {}
EmptyDict == [k \in {} |-> None]

\* dict.update: d.update(e)
Update(d, e) ==
    [k \in DOMAIN d \cup DOMAIN e |-> IF k \in DOMAIN e THEN e[k] ELSE d[k]]

\* an optional mapping argument: <<>> is None, <<d>> is the mapping d
NoMapping == <<>>
Some(d) == <<d>>

\* sep.join(parts)
RECURSIVE Join(_, _)
Join(sep, parts) ==
    IF Len(parts) = 0 THEN ""
    ELSE IF Len(parts) = 1 THEN parts[1]
    ELSE parts[1] \o sep \o Join(sep, Tail(parts))

-----------------------------------------------------------------------------
(* Inputs *)

\* the caller's credentials dicts: one complete (the docstring's, lines 66-73),
\* one whose database is empty and whose schema is missing, one empty
InitialCredentials ==
    << [account |-> "ab12345", database |-> "detailed_data", schema |-> "observations"],
       [account |-> "xy67890", database |-> ""],
       EmptyDict >>
CredIds == DOMAIN InitialCredentials
\* credentials=None is the reference 0
NoCredentials == 0

TableNames == {"", "weather_data"}
\* an argument left out (None), given empty, or given
DatabaseArgs == {"", "meteorology"}
SchemaArgs == {None, "geodata"}
LoadArgsChoices == {NoMapping}
SaveArgsChoices ==
    { NoMapping,
      Some([mode |-> "overwrite", column_order |-> "name", table_type |-> ""]) }

\* data handed to save: a pandas frame (native FALSE) or a Snowpark one
Rows == {"r1", "r2"}
DataChoices == [native : BOOLEAN, content : {<<r>> : r \in Rows}]

-----------------------------------------------------------------------------
(* __init__, lines 115-154 *)

\* InitError testing `table_name is None` where the code tests `not table_name`
InitErrorNoneOnly(table_name, schema, database, given, cd) ==
    IF table_name = None THEN "'table_name' argument cannot be empty."
    ELSE IF ~given \/ DOMAIN cd = {} THEN "'credentials' argument cannot be empty."
    ELSE IF ~Truthy(database) /\ ~("database" \in DOMAIN cd /\ Truthy(cd["database"]))
        THEN "'database' must be provided by credentials or dataset."
    ELSE IF ~Truthy(schema) /\ ~("schema" \in DOMAIN cd /\ Truthy(cd["schema"]))
        THEN "'schema' must be provided by credentials or dataset."
    ELSE ""

\* the checks of lines 115-129, in order; "" when none raises.
\* cd is the credentials dict, or EmptyDict with given = FALSE for None.
InitError(table_name, schema, database, given, cd) ==
    IF ~Truthy(table_name) THEN "'table_name' argument cannot be empty."
    ELSE IF ~given \/ DOMAIN cd = {} THEN "'credentials' argument cannot be empty."
    ELSE IF ~Truthy(database) /\ ~("database" \in DOMAIN cd /\ Truthy(cd["database"]))
        THEN "'database' must be provided by credentials or dataset."
    ELSE IF ~Truthy(schema) /\ ~("schema" \in DOMAIN cd /\ Truthy(cd["schema"]))
        THEN "'schema' must be provided by credentials or dataset."
    ELSE ""

\* Resolve preferring the credentials' value to the argument
ResolveCredentialsFirst(arg, cd, key) ==
    IF key \in DOMAIN cd /\ Truthy(cd[key]) THEN cd[key] ELSE arg

\* lines 121-131: the argument, or credentials[key] when the argument is falsy
Resolve(arg, cd, key) ==
    IF ~Truthy(arg) THEN (IF key \in DOMAIN cd THEN cd[key] ELSE None) ELSE arg

\* lines 135-140: deepcopy(DEFAULT) updated with the argument when not None
MergeArgs(default, arg) ==
    IF arg # NoMapping THEN Update(default, arg[1]) ELSE default

\* lines 146-151: connection_parameters = credentials; .update({...}) in place
UpdatedCredentials(cd, database, schema) ==
    Update(cd, [database |-> database, schema |-> schema])

\* sp.context.get_active_session(): the one active session, or 0 for
\* SnowparkSessionException (no session, or several)
get_active_session(sess) == IF Len(sess) = 1 THEN 1 ELSE 0

\* _get_session creating a session without asking for the active one first
get_session_always_creates(sess, connection_parameters) ==
    <<Len(sess) + 1,
      Append(sess, [options |-> connection_parameters, origin |-> "builder"]),
      << [fn |-> "get_active_session", ret |-> 0],
         [fn |-> "create", options |-> connection_parameters,
          ret |-> Len(sess) + 1] >> >>

\* _get_session, lines 182-190: <<session, sessions afterwards, vendor calls>>
get_session(sess, connection_parameters) ==
    LET active == get_active_session(sess) IN
    IF active # 0
    THEN <<active, sess, <<[fn |-> "get_active_session", ret |-> active]>>>>
    ELSE <<Len(sess) + 1,
           Append(sess, [options |-> connection_parameters, origin |-> "builder"]),
           << [fn |-> "get_active_session", ret |-> 0],
              [fn |-> "create", options |-> connection_parameters,
               ret |-> Len(sess) + 1] >> >>

NoResult == [kind |-> "None"]

\* _describe reading database and schema from the connection parameters
describe_connection_parameters(self) ==
    LET parameters == creds[self.connection_parameters]
    IN [table_name |-> self.table_name,
        database |-> IF "database" \in DOMAIN parameters
                     THEN parameters["database"] ELSE None,
        schema |-> IF "schema" \in DOMAIN parameters
                   THEN parameters["schema"] ELSE None]

\* _describe, lines 156-161
describe(self) ==
    [table_name |-> self.table_name, database |-> self.database,
     schema |-> self.schema]

\* history a load keeps of the call it follows: a save that returned, with
\* the rows it was given and the arguments of its write, or nothing
Preceding(call) ==
    IF call.op = "save" /\ call.error = ""
    THEN [op |-> "save", self |-> call.self, content |-> call.args.data.content,
          kwargs |-> call.calls[Len(call.calls)].kwargs]
    ELSE [op |-> "other"]

Construct(table_name, schema, database, load_args, save_args, credentials) ==
    /\ Len(instances) < MaxAdapters
    /\ LET given == credentials # NoCredentials
           cd == IF given THEN creds[credentials] ELSE EmptyDict
           args == [table_name |-> table_name, schema |-> schema,
                    database |-> database, credentials |-> credentials,
                    given |-> given, cd |-> cd]
           err == InitError(table_name, schema, database, given, cd)
       IN
       IF err # ""
       THEN /\ last' = [op |-> "__init__", self |-> 0, args |-> args,
                        error |-> "DataSetError", message |-> err,
                        calls |-> <<>>, result |-> NoResult]
            /\ UNCHANGED <<creds, instances, built, sessions>>
       ELSE LET db == Resolve(database, cd, "database")
                sc == Resolve(schema, cd, "schema")
                params == UpdatedCredentials(cd, db, sc)
                got == get_session(sessions, params)
                self == [table_name |-> table_name,
                         database |-> db,
                         schema |-> sc,
                         load_args |-> MergeArgs(DEFAULT_LOAD_ARGS, load_args),
                         save_args |-> MergeArgs(DEFAULT_SAVE_ARGS, save_args),
                         connection_parameters |-> credentials,
                         session |-> got[1]]
            IN
            /\ creds' = [creds EXCEPT ![credentials] = params]
            /\ instances' = Append(instances, self)
            /\ built' = Append(built, [self |-> self, describe |-> describe(self),
                                        load_args |-> load_args,
                                        save_args |-> save_args])
            /\ sessions' = got[2]
            /\ last' = [op |-> "__init__", self |-> Len(instances) + 1,
                        args |-> args, error |-> "", message |-> "",
                        calls |-> got[3], result |-> NoResult]
    /\ UNCHANGED <<creds0, DEFAULT_LOAD_ARGS, DEFAULT_SAVE_ARGS, tables>>

-----------------------------------------------------------------------------

(* _load, lines 192-200 *)

\* the name built schema first
load_table_name_schema_first(self) == <<self.schema, self.database, self.table_name>>

\* lines 193-197
load_table_name(self) == <<self.database, self.schema, self.table_name>>

\* session.table(name): a lazy handle on the named table; `found` and
\* `content` are what collecting it would give now
session_table(session, name) ==
    [kind |-> "DataFrame", native |-> TRUE, session |-> session, table |-> name,
     found |-> <<session, name>> \in DOMAIN tables,
     content |-> IF <<session, name>> \in DOMAIN tables
                 THEN tables[<<session, name>>] ELSE <<>>]

Load(i) ==
    /\ i \in 1 .. Len(instances)
    /\ LET self == instances[i]
           name == Join(".", load_table_name(self))
           sp_df == session_table(self.session, name)
       IN last' = [op |-> "load", self |-> i, args |-> [none |-> TRUE],
                   error |-> "", message |-> "", preceding |-> Preceding(last),
                   calls |-> <<[fn |-> "table", session |-> self.session,
                                name |-> name]>>,
                   result |-> sp_df]
    /\ UNCHANGED <<creds, creds0, DEFAULT_LOAD_ARGS, DEFAULT_SAVE_ARGS, instances,
                   built, sessions, tables>>

-----------------------------------------------------------------------------
(* _save, lines 202-214 *)

\* the test of line 203 without its `not`
needs_conversion_inverted(data) == data.native

\* line 203: not isinstance(data, sp.DataFrame)
needs_conversion(data) == ~data.native

\* session.create_dataframe(data): the same rows as a Snowpark dataframe
create_dataframe(data) == [native |-> TRUE, content |-> data.content]

\* the name written without its database
save_table_name_unqualified(self) == <<self.schema, self.table_name>>

\* lines 208-212
save_table_name(self) == <<self.database, self.schema, self.table_name>>

\* DataFrameWriter.save_as_table(table_name, **kwargs) of the vendor SDK: an
\* iterable table_name is the qualified identifier, its parts joined by ".";
\* mode defaults to "errorifexists". <<tables afterwards, error>>
save_as_table(session, sp_df, table_name, kwargs) ==
    LET key == <<session, Join(".", table_name)>>
        mode == IF "mode" \in DOMAIN kwargs THEN kwargs["mode"] ELSE "errorifexists"
        written == [k \in DOMAIN tables \cup {key} |->
                        IF k = key THEN sp_df.content ELSE tables[k]]
    IN IF mode = "overwrite" \/ key \notin DOMAIN tables
       THEN <<written, "">>
       ELSE <<tables, "SnowparkSQLException">>

Save(i, data) ==
    /\ i \in 1 .. Len(instances)
    /\ LET self == instances[i]
           sp_df == IF needs_conversion(data) THEN create_dataframe(data) ELSE data
           table_name == save_table_name(self)
           wrote == save_as_table(self.session, sp_df, table_name, self.save_args)
       IN /\ tables' = wrote[1]
          /\ last' = [op |-> "save", self |-> i, args |-> [data |-> data],
                      error |-> wrote[2], message |-> "",
                      calls |-> (IF needs_conversion(data)
                                 THEN <<[fn |-> "create_dataframe",
                                         session |-> self.session, data |-> data]>>
                                 ELSE <<>>)
                                \o <<[fn |-> "save_as_table", df |-> sp_df,
                                      session |-> self.session,
                                      table_name |-> table_name,
                                      kwargs |-> self.save_args]>>,
                      result |-> NoResult]
    /\ UNCHANGED <<creds, creds0, DEFAULT_LOAD_ARGS, DEFAULT_SAVE_ARGS, instances,
                   built, sessions>>

-----------------------------------------------------------------------------
(* _exists, lines 216-220 *)

\* line 218-219: query.format(database=..., schema=..., table_name=...)
exists_query(self) ==
    "SELECT COUNT(*) FROM " \o self.database
    \o ".INFORMATION_SCHEMA.TABLES WHERE TABLE_SCHEMA = '" \o self.schema
    \o "' AND TABLE_NAME = '" \o self.table_name \o "'"

\* the result as "at least one row"
exists_result_at_least_one(rows) == rows[1][1] >= 1

\* line 220: rows[0][0] == 1
exists_result(rows) == rows[1][1] = 1

\* count is what the warehouse's catalog answers
Exists(i, count) ==
    /\ i \in 1 .. Len(instances)
    /\ LET self == instances[i]
           rows == << <<count>> >>
       IN last' = [op |-> "exists", self |-> i, args |-> [none |-> TRUE],
                   error |-> "", message |-> "",
                   calls |-> <<[fn |-> "sql", session |-> self.session,
                                query |-> exists_query(self), rows |-> rows]>>,
                   result |-> [kind |-> "bool", value |-> exists_result(rows)]]
    /\ UNCHANGED <<creds, creds0, DEFAULT_LOAD_ARGS, DEFAULT_SAVE_ARGS, instances,
                   built, sessions, tables>>

-----------------------------------------------------------------------------
(* _describe as a call *)

Describe(i) ==
    /\ i \in 1 .. Len(instances)
    /\ last' = [op |-> "describe", self |-> i, args |-> [none |-> TRUE],
                error |-> "", message |-> "", calls |-> <<>>,
                result |-> [kind |-> "dict", value |-> describe(instances[i])]]
    /\ UNCHANGED <<creds, creds0, DEFAULT_LOAD_ARGS, DEFAULT_SAVE_ARGS, instances,
                   built, sessions, tables>>

-----------------------------------------------------------------------------

Init ==
    /\ creds = InitialCredentials
    /\ creds0 = creds
    /\ DEFAULT_LOAD_ARGS = EmptyDict
    /\ DEFAULT_SAVE_ARGS = EmptyDict
    /\ instances = <<>>
    /\ built = <<>>
    /\ sessions = <<>>
    /\ tables = <<>>
    /\ last = [op |-> "none", error |-> ""]

Next ==
    \/ \E table_name \in TableNames, schema \in SchemaArgs, database \in DatabaseArgs,
          load_args \in LoadArgsChoices, save_args \in SaveArgsChoices,
          credentials \in {NoCredentials} \cup CredIds :
          Construct(table_name, schema, database, load_args, save_args, credentials)
    \/ \E i \in 1 .. MaxAdapters : Load(i)
    \/ \E i \in 1 .. MaxAdapters, data \in DataChoices : Save(i, data)
    \/ \E i \in 1 .. MaxAdapters, count \in 0 .. MaxCount : Exists(i, count)
    \/ \E i \in 1 .. MaxAdapters : Describe(i)

Spec == Init /\ [][Next]_vars

-----------------------------------------------------------------------------
(* Properties *)

Constructed == last.op = "__init__" /\ last.error = ""

\* credentials[key] is there and not empty
Supplies(cd, key) == key \in DOMAIN cd /\ cd[key] # "" /\ cd[key] # None

\* the constructions the documentation calls misconfigured
Misconfigured(a) ==
    \/ a.table_name = ""
    \/ ~a.given
    \/ a.cd = EmptyDict
    \/ (a.database \in {None, ""} /\ ~Supplies(a.cd, "database"))
    \/ (a.schema \in {None, ""} /\ ~Supplies(a.cd, "schema"))

\* C1: a construction with an empty table_name, with empty or absent
\* credentials, or with a database or a schema that neither the argument nor
\* the credentials give, raises DataSetError, builds no instance and makes no
\* call to the vendor SDK: no session is looked up or created.
C1_ConfigurationError ==
    (last.op = "__init__" /\ Misconfigured(last.args)) =>
        /\ last.error = "DataSetError"
        /\ last.self = 0
        /\ last.calls = <<>>

\* a construction that fails on the schema alone, with a session already there
C1_Witness ==
    /\ last.op = "__init__" /\ last.error = "DataSetError"
    /\ last.args.table_name # "" /\ last.args.given /\ last.args.cd # EmptyDict
    /\ last.args.database = "meteorology"
    /\ last.args.schema = None /\ ~Supplies(last.args.cd, "schema")
    /\ Len(sessions) = 1

\* C2: after a successful construction the instance's database (schema) is
\* the argument when the argument is given and not empty, whatever the
\* credentials hold, and the credentials' value otherwise.
C2_ArgumentsTakePriority ==
    Constructed =>
        LET a == last.args
            self == instances[last.self]
        IN /\ self.database = IF a.database \notin {None, ""}
                              THEN a.database ELSE a.cd["database"]
           /\ self.schema = IF a.schema \notin {None, ""}
                            THEN a.schema ELSE a.cd["schema"]

\* an explicit database over a different one in the credentials, and the
\* schema taken from the credentials
C2_Witness ==
    /\ Constructed
    /\ last.args.database = "meteorology"
    /\ Supplies(last.args.cd, "database") /\ last.args.cd["database"] # "meteorology"
    /\ last.args.schema = None
    /\ instances[last.self].schema = "observations"

\* C3: an instance built without a database (schema) gets the value the
\* credentials mapping originally supplied, whichever instances were built
\* from that mapping before it.
C3_CredentialsKeepTheirValues ==
    Constructed =>
        LET a == last.args
            self == instances[last.self]
            original == creds0[a.credentials]
        IN /\ a.database \in {None, ""} =>
                Supplies(original, "database") /\ self.database = original["database"]
           /\ a.schema \in {None, ""} =>
                Supplies(original, "schema") /\ self.schema = original["schema"]

\* C4: exists() is true exactly when the count the metadata query reports
\* is one, and the query names the instance's database, schema and table.
C4_ExistsIffCountIsOne ==
    last.op = "exists" =>
        LET self == instances[last.self]
            call == last.calls[1]
            count == call.rows[1][1]
        IN /\ Len(last.calls) = 1 /\ call.fn = "sql"
           /\ call.query = "SELECT COUNT(*) FROM " \o self.database
                \o ".INFORMATION_SCHEMA.TABLES WHERE TABLE_SCHEMA = '"
                \o self.schema \o "' AND TABLE_NAME = '" \o self.table_name \o "'"
           /\ last.result.kind = "bool"
           /\ (last.result.value <=> count = 1)
           /\ (count = 0 \/ count > 1 => last.result.value = FALSE)

\* the catalog reports more than one row
C4_Witness ==
    /\ last.op = "exists"
    /\ last.calls[1].rows[1][1] > 1
    /\ last.result.value = FALSE

\* C5: a construction takes the SDK's active session when there is one and
\* creates one from the resolved connection parameters only when there is
\* none; no run of constructions creates more than one session.
C5_AtMostOneSession ==
    /\ Len(sessions) <= 1
    /\ Constructed =>
        LET self == instances[last.self]
            looked == last.calls[1]
        IN /\ looked.fn = "get_active_session"
           /\ looked.ret # 0 =>
                /\ Len(last.calls) = 1
                /\ self.session = looked.ret
           /\ looked.ret = 0 =>
                /\ Len(last.calls) = 2
                /\ last.calls[2].fn = "create"
                /\ last.calls[2].options = creds[last.args.credentials]
                /\ last.calls[2].options["database"] = self.database
                /\ last.calls[2].options["schema"] = self.schema
                /\ self.session = last.calls[2].ret
                /\ sessions[self.session].options = last.calls[2].options

\* a second construction that reuses the session the first created
C5_Witness ==
    /\ Constructed
    /\ last.self = 2
    /\ Len(last.calls) = 1
    /\ instances[2].session = instances[1].session

\* C6: table_name, database and schema of every instance are non-empty and
\* describe() gives the mapping it gave right after construction, whatever
\* was called since.
C6_DescribeNeverChanges ==
    /\ \A i \in 1 .. Len(instances) :
        /\ describe(instances[i]) = built[i].describe
        /\ describe(instances[i]).table_name \notin {None, ""}
        /\ describe(instances[i]).database \notin {None, ""}
        /\ describe(instances[i]).schema \notin {None, ""}
    /\ last.op = "describe" => last.result.value = built[last.self].describe

\* describe() on an instance whose credentials mapping another construction
\* has changed since, after a save
C6_Witness ==
    /\ last.op = "describe"
    /\ tables # <<>>
    /\ LET self == instances[last.self]
       IN creds[self.connection_parameters]["schema"] # self.schema

\* C7: load() asks the instance's session for the table named
\* database.schema.table_name, makes no other call, and returns the handle
\* the session gave.
C7_LoadQualifiedName ==
    last.op = "load" =>
        LET self == instances[last.self]
            name == self.database \o "." \o self.schema \o "." \o self.table_name
        IN /\ last.calls = <<[fn |-> "table", session |-> self.session,
                              name |-> name]>>
           /\ last.error = ""
           /\ last.result = session_table(self.session, name)
           /\ built[last.self].describe =
                [table_name |-> "weather_data", database |-> "meteorology",
                 schema |-> "observations"]
              => last.calls[1].name = "meteorology.observations.weather_data"

\* the documented example
C7_Witness ==
    /\ last.op = "load"
    /\ last.calls[1].name = "meteorology.observations.weather_data"

\* C8: a load() that follows a save(data) of the same instance whose write
\* had mode overwrite gives the rows of data.
C8_SaveLoadRoundTrip ==
    (/\ last.op = "load"
     /\ last.preceding.op = "save"
     /\ last.preceding.self = last.self
     /\ "mode" \in DOMAIN last.preceding.kwargs
     /\ last.preceding.kwargs["mode"] = "overwrite")
    => /\ last.result.found
       /\ last.result.content = last.preceding.content

\* the round trip, on a table that two instances write
C8_Witness ==
    /\ last.op = "load"
    /\ last.preceding.op = "save"
    /\ last.preceding.self = last.self
    /\ "mode" \in DOMAIN last.preceding.kwargs
    /\ last.preceding.kwargs["mode"] = "overwrite"
    /\ last.result.content = <<"r2">>
    /\ Len(instances) = 2
    /\ describe(instances[1]) = describe(instances[2])

\* C9: an instance uses a session created for the source its own connection
\* parameters name: the session's account is the instance's account.
C9_SessionOfTheSameSource ==
    \A i \in 1 .. Len(instances) :
        sessions[instances[i].session].options["account"]
            = creds[instances[i].connection_parameters]["account"]

\* C10: save(data) converts data with create_dataframe exactly when it is
\* not a Snowpark dataframe, then makes one write, with the save_args given
\* at construction merged over the empty defaults; it returns None and leaves
\* the instance and the class defaults as they were.
C10_SaveForwardsArguments ==
    last.op = "save" =>
        LET self == instances[last.self]
            data == last.args.data
            write == last.calls[Len(last.calls)]
            given == built[last.self].save_args
        IN /\ data.native => Len(last.calls) = 1 /\ write.df = data
           /\ ~data.native =>
                /\ Len(last.calls) = 2
                /\ last.calls[1] = [fn |-> "create_dataframe",
                                    session |-> self.session, data |-> data]
                /\ write.df = [native |-> TRUE, content |-> data.content]
           /\ write.fn = "save_as_table"
           /\ write.session = self.session
           /\ write.kwargs = IF given = <<>> THEN EmptyDict ELSE given[1]
           /\ last.result = [kind |-> "None"]
           /\ instances[last.self] = built[last.self].self
           /\ DEFAULT_SAVE_ARGS = EmptyDict
           /\ DEFAULT_LOAD_ARGS = EmptyDict

\* a pandas frame saved by an instance built with save_args
C10_Witness ==
    /\ last.op = "save"
    /\ ~last.args.data.native
    /\ Len(last.calls) = 2
    /\ last.calls[2].kwargs =
        [mode |-> "overwrite", column_order |-> "name", table_type |-> ""]
====
